---- MODULE Spec2Model ----
(***************************************************************************)
(* A model of GW2Bot's guildwars2 cog: the API-cache rebuild               *)
(* (DatabaseMixin.rebuild_database), the per-endpoint refresh              *)
(* (DatabaseMixin.cache_endpoint), the interactive item lookup             *)
(* (DatabaseMixin.itemname_to_id, DatabaseMixin.selection_menu) and the    *)
(* undercut count of the trading post overview (CommerceMixin.tp_current)  *)
(* with the rendering of coin amounts (CommerceMixin.gold_to_coins).       *)
(*                                                                         *)
(* Five specifications share the module:                                   *)
(*   SpecRebuild  concurrent invocations of rebuild_database               *)
(*   SpecCache    successive invocations of cache_endpoint on one endpoint *)
(*   SpecLookup   concurrent lookups of one requester                      *)
(*   SpecCommerce the undercut loop of tp_current on one transaction       *)
(*   SpecCoins    gold_to_coins on one amount                              *)
(***************************************************************************)
EXTENDS Integers, Sequences, FiniteSets, TLC

\* Number of `database create` invocations that may be in flight.
MaxRuns == 2

Runs == 1..MaxRuns

\* The ID index of the endpoint holds up to MaxBatches full batches, give or
\* take one ID.
MaxBatches == 2

\* Number of successive cache_endpoint invocations on the endpoint.
MaxCalls == 2

\* database.py:165 (and 172): the number of IDs of one batch request.
BatchSize == 200

\* The longest list of offers of a trading post listing.
MaxOffers == 3

\* The amounts gold_to_coins is given run up to MaxMoney coins.
MaxMoney == 20300

\* Number of lookups (itemname_to_id or selection_menu calls) of the requester.
MaxSessions == 2

Sessions == 1..MaxSessions

\* database.py:251, 273, 346: the most results a listing is made for.
MaxListed == 25

\* database.py:183-187, in list order: [endpoint, all_at_once]
endpoints ==
    << [endpoint |-> "items",           all_at_once |-> FALSE],
       [endpoint |-> "achievements",    all_at_once |-> FALSE],
       [endpoint |-> "itemstats",       all_at_once |-> TRUE],
       [endpoint |-> "titles",          all_at_once |-> TRUE],
       [endpoint |-> "recipes",         all_at_once |-> FALSE],
       [endpoint |-> "skins",           all_at_once |-> FALSE],
       [endpoint |-> "currencies",      all_at_once |-> TRUE],
       [endpoint |-> "skills",          all_at_once |-> TRUE],
       [endpoint |-> "specializations", all_at_once |-> TRUE],
       [endpoint |-> "traits",          all_at_once |-> TRUE],
       [endpoint |-> "worlds",          all_at_once |-> TRUE],
       [endpoint |-> "minis",           all_at_once |-> TRUE] >>

\* database.py:196-203, in statement order: <<collection, key>>
indexes ==
    << <<"items", "name">>, <<"achievements", "name">>, <<"titles", "name">>,
       <<"recipes", "output_item_id">>, <<"skins", "name">>,
       <<"currencies", "name">>, <<"skills", "name">>, <<"worlds", "name">> >>

VARIABLES
    available,   \* bot.available
    runPc,       \* per invocation of rebuild_database: the await it is suspended at
    runE,        \* per invocation: position of the for loop in endpoints
    runIx,       \* per invocation: position in the create_index statements
    runCalls,    \* per invocation: the endpoints passed to cache_endpoint so far
    runFailed,   \* per invocation: some cache_endpoint call raised
    runSynced,   \* per invocation: the secondary syncs that have returned
    runExc,      \* per invocation: the call whose exception left rebuild_database
    remoteIndex, \* the remote source: the ID index of the endpoint
    allAtOnce,   \* cache_endpoint's parameter all_at_once
    store,       \* self.db[endpoint]: per _id, the documents holding it
    cePc,        \* cache_endpoint: the await it is suspended at
    ceItems,     \* cache_endpoint's local items
    counter,     \* cache_endpoint's local counter
    total,       \* cache_endpoint's local total
    itemgroup,   \* cache_endpoint's local itemgroup
    fetched,     \* the ID lists of the batch requests of this invocation
    written,     \* the number of bulk_write calls of this invocation
    bweAt,       \* the batches of this invocation whose bulk_write hit BulkWriteError
    ceExc,       \* the exception that left cache_endpoint
    ncalls,      \* the invocations of cache_endpoint so far
    cleanStore,  \* the store as the first error-free invocation left it
    catalog,          \* self.db[database]: the documents, in the store's order
    group_duplicates, \* itemname_to_id's parameter
    destination,      \* itemname_to_id's parameter: the ctx, or a user
    filter_callable,  \* selection_menu's parameter
    sessions,         \* per lookup: its locals, what it sent, its result
    state,       \* tp_current: "buys" or "sells"
    price,       \* tp_current: result["price"], the requester's own price
    offers,      \* tp_current: listings[index][state]
    tpPc,        \* tp_current: where it is in lines 73-80
    max_price,   \* tp_current: offers[0]["unit_price"]
    undercuts,   \* tp_current: the count so far
    offerAt,     \* tp_current: position of the for loop in offers
    tpExc,       \* the exception that left tp_current
    money,       \* gold_to_coins: its parameter
    gold,        \* gold_to_coins: the quotient of divmod(money, 10000)
    silver,      \* gold_to_coins: the quotient of divmod(remainder, 100)
    copper,      \* gold_to_coins: the remainder of divmod(remainder, 100)
    coins,       \* gold_to_coins: the text it returns
    gcPc         \* gold_to_coins: where it is

rebuildVars == <<available, runPc, runE, runIx, runCalls, runFailed, runExc,
                 runSynced>>

cacheVars == <<remoteIndex, allAtOnce, store, cePc, ceItems, counter, total,
               itemgroup, fetched, written, bweAt, ceExc, ncalls, cleanStore>>

lookupVars == <<catalog, group_duplicates, destination, filter_callable, sessions>>

commerceVars == <<state, price, offers, tpPc, max_price, undercuts, offerAt, tpExc>>

coinsVars == <<money, gold, silver, copper, coins, gcPc>>

vars == <<rebuildVars, cacheVars, lookupVars, commerceVars, coinsVars>>

\* What rebuild_database's own steps leave alone, what cache_endpoint's do, and
\* what a lookup's do.
outsideRebuild == <<cacheVars, lookupVars, commerceVars, coinsVars>>
outsideCache == <<rebuildVars, lookupVars, commerceVars, coinsVars>>
outsideLookup == <<rebuildVars, cacheVars, commerceVars, coinsVars>>
outsideCommerce == <<rebuildVars, cacheVars, lookupVars, coinsVars>>
outsideCoins == <<rebuildVars, cacheVars, lookupVars, commerceVars>>

\* No gold_to_coins is modelled: its variables rest.
CoinsIdle ==
    /\ money = 0
    /\ gold = 0
    /\ silver = 0
    /\ copper = 0
    /\ coins = <<>>
    /\ gcPc = "idle"

\* No tp_current is modelled: its variables rest.
CommerceIdle ==
    /\ state = "buys"
    /\ price = 0
    /\ offers = <<>>
    /\ tpPc = "idle"
    /\ max_price = 0
    /\ undercuts = 0
    /\ offerAt = 0
    /\ tpExc = "none"

\* No lookup is modelled: its variables rest.
LookupIdle ==
    /\ catalog = <<>>
    /\ group_duplicates = FALSE
    /\ destination = "ctx"
    /\ filter_callable = "none"
    /\ sessions = <<>>

\* No cache_endpoint invocation is modelled: its variables rest.
CacheIdle ==
    /\ remoteIndex = <<>>
    /\ allAtOnce = FALSE
    /\ store = <<>>
    /\ cePc = "idle"
    /\ ceItems = <<>>
    /\ counter = 0
    /\ total = 0
    /\ itemgroup = <<>>
    /\ fetched = <<>>
    /\ written = 0
    /\ bweAt = {}
    /\ ceExc = "none"
    /\ ncalls = 0
    /\ cleanStore = <<>>

\* No rebuild_database invocation is modelled: its variables rest.
RebuildIdle ==
    /\ available = TRUE
    /\ runPc = [r \in Runs |-> "idle"]
    /\ runE = [r \in Runs |-> 0]
    /\ runIx = [r \in Runs |-> 0]
    /\ runCalls = [r \in Runs |-> <<>>]
    /\ runFailed = [r \in Runs |-> FALSE]
    /\ runExc = [r \in Runs |-> "none"]
    /\ runSynced = [r \in Runs |-> {}]

\* The positions at which an invocation is no longer running.
Ended == {"done", "raised"}

InProgress(r) == runPc[r] \notin ({"idle"} \cup Ended)

\* bot.available is True before any rebuild; no invocation has started.
InitRebuild ==
    /\ RebuildIdle
    /\ CacheIdle
    /\ LookupIdle
    /\ CommerceIdle
    /\ CoinsIdle

\* An exception leaves rebuild_database: nothing after the raising await runs.
Raise(r, what) ==
    /\ runPc' = [runPc EXCEPT ![r] = "raised"]
    /\ runExc' = [runExc EXCEPT ![r] = what]
    /\ runE' = [runE EXCEPT ![r] = 0]
    /\ runIx' = [runIx EXCEPT ![r] = 0]
    /\ runSynced' = [runSynced EXCEPT ![r] = {}]
    /\ UNCHANGED <<available, runCalls, runFailed>>
    /\ UNCHANGED outsideRebuild

\* database.py:177-180: the flag is cleared, then change_presence is awaited.
Start(r) ==
    /\ runPc[r] = "idle"
    /\ available' = FALSE
    /\ runPc' = [runPc EXCEPT ![r] = "presence"]
    /\ UNCHANGED <<runE, runIx, runCalls, runFailed, runExc, runSynced>>
    /\ UNCHANGED outsideRebuild

\* database.py:180-188: change_presence returned, the loop starts.
PresenceSet(r) ==
    /\ runPc[r] = "presence"
    /\ runPc' = [runPc EXCEPT ![r] = "cache"]
    /\ runE' = [runE EXCEPT ![r] = 1]
    /\ UNCHANGED <<available, runIx, runCalls, runFailed, runExc, runSynced>>
    /\ UNCHANGED outsideRebuild

\* database.py:180: change_presence raised, outside any try.
PresenceSetFails(r) ==
    /\ runPc[r] = "presence"
    /\ Raise(r, "change_presence")

\* The for statement moves to the next endpoint, or to line 196 after the last.
NextEndpoint(r) ==
    IF runE[r] < Len(endpoints)
    THEN /\ runE' = [runE EXCEPT ![r] = runE[r] + 1]
         /\ runPc' = [runPc EXCEPT ![r] = "cache"]
         /\ runIx' = runIx
    ELSE /\ runE' = [runE EXCEPT ![r] = 0]
         /\ runPc' = [runPc EXCEPT ![r] = "index"]
         /\ runIx' = [runIx EXCEPT ![r] = 1]

\* database.py:189-190: cache_endpoint(*e) returned.
CacheEndpointReturns(r) ==
    /\ runPc[r] = "cache"
    /\ runCalls' = [runCalls EXCEPT ![r] = Append(@, endpoints[runE[r]].endpoint)]
    /\ NextEndpoint(r)
    /\ UNCHANGED <<available, runFailed, runExc, runSynced>>
    /\ UNCHANGED outsideRebuild

\* database.py:190-195: cache_endpoint(*e) raised; the handler logs and awaits
\* owner.send.
CacheEndpointRaises(r) ==
    /\ runPc[r] = "cache"
    /\ runCalls' = [runCalls EXCEPT ![r] = Append(@, endpoints[runE[r]].endpoint)]
    /\ runFailed' = [runFailed EXCEPT ![r] = TRUE]
    /\ runPc' = [runPc EXCEPT ![r] = "notify"]
    /\ UNCHANGED <<available, runE, runIx, runExc, runSynced>>
    /\ UNCHANGED outsideRebuild

\* database.py:195: owner.send returned, the loop goes on.
NotifySent(r) ==
    /\ runPc[r] = "notify"
    /\ NextEndpoint(r)
    /\ UNCHANGED <<available, runCalls, runFailed, runExc, runSynced>>
    /\ UNCHANGED outsideRebuild

\* database.py:194-195: get_user returned None or owner.send raised, inside the
\* except clause: the exception leaves rebuild_database.
NotifyFails(r) ==
    /\ runPc[r] = "notify"
    /\ Raise(r, "owner.send")

\* database.py:196-203: one create_index returned.
CreateIndexDone(r) ==
    /\ runPc[r] = "index"
    /\ IF runIx[r] < Len(indexes)
       THEN /\ runIx' = [runIx EXCEPT ![r] = runIx[r] + 1]
            /\ runPc' = runPc
       ELSE /\ runIx' = [runIx EXCEPT ![r] = 0]
            /\ runPc' = [runPc EXCEPT ![r] = "raids"]
    /\ UNCHANGED <<available, runE, runCalls, runFailed, runExc, runSynced>>
    /\ UNCHANGED outsideRebuild

\* database.py:196-203: one create_index raised.
CreateIndexFails(r) ==
    /\ runPc[r] = "index"
    /\ Raise(r, "create_index")

\* database.py:204-206: cache_raids returned, change_presence() is awaited.
CacheRaidsDone(r) ==
    /\ runPc[r] = "raids"
    /\ runPc' = [runPc EXCEPT ![r] = "presence_reset"]
    /\ runSynced' = [runSynced EXCEPT ![r] = @ \cup {"cache_raids"}]
    /\ UNCHANGED <<available, runE, runIx, runCalls, runFailed, runExc>>
    /\ UNCHANGED outsideRebuild

\* database.py:132-137, 204: call_api or set_cog_config raised in cache_raids.
CacheRaidsFails(r) ==
    /\ runPc[r] = "raids"
    /\ Raise(r, "cache_raids")

\* A finish that forgets line 207.
FinishNoRestore(r) ==
    /\ runPc[r] = "presence_reset"
    /\ runPc' = [runPc EXCEPT ![r] = "done"]
    /\ UNCHANGED <<available, runE, runIx, runCalls, runFailed, runExc, runSynced>>
    /\ UNCHANGED outsideRebuild

\* database.py:206-210: change_presence() returned, the flag is set again.
Finish(r) ==
    /\ runPc[r] = "presence_reset"
    /\ available' = TRUE
    /\ runPc' = [runPc EXCEPT ![r] = "done"]
    /\ UNCHANGED <<runE, runIx, runCalls, runFailed, runExc, runSynced>>
    /\ UNCHANGED outsideRebuild

\* database.py:206: change_presence() raised.
PresenceResetFails(r) ==
    /\ runPc[r] = "presence_reset"
    /\ Raise(r, "change_presence")

NextRebuild ==
    \E r \in Runs :
        \/ Start(r)
        \/ PresenceSet(r)
        \/ PresenceSetFails(r)
        \/ CacheEndpointReturns(r)
        \/ CacheEndpointRaises(r)
        \/ NotifySent(r)
        \/ NotifyFails(r)
        \/ CreateIndexDone(r)
        \/ CreateIndexFails(r)
        \/ CacheRaidsDone(r)
        \/ CacheRaidsFails(r)
        \/ Finish(r)
        \/ PresenceResetFails(r)

SpecRebuild == InitRebuild /\ [][NextRebuild]_vars

(***************************************************************************)
(* cache_endpoint                                                          *)
(***************************************************************************)

\* The lengths of the remote ID index: around every multiple of BatchSize up
\* to MaxBatches batches.
IndexLengths ==
    {n \in 0..(MaxBatches * BatchSize + 1) :
        n % BatchSize \in {0, 1, BatchSize - 1}}

\* The _id values a document of the collection may have: the remote IDs, and 0
\* for a document the remote source does not list.
StoreIds == 0..(MaxBatches * BatchSize + 1)

\* The record the remote source returns for an ID.
RemoteRecord(id) == [id |-> id, data |-> "current"]

\* database.py:147: item["_id"] = item.pop("id")
Document(item) == [_id |-> item.id, data |-> item.data]

\* A ReplaceOne that inserts beside the document it should replace.
InsertOne(st, doc) == [st EXCEPT ![doc._id] = Append(@, doc)]

\* database.py:149-151: ReplaceOne({"_id": item["_id"]}, item, upsert=True):
\* the first document with that _id is replaced as a whole, or the document is
\* inserted when there is none.
ReplaceOne(st, doc) ==
    [st EXCEPT ![doc._id] = IF @ = <<>> THEN <<doc>> ELSE <<doc>> \o Tail(@)]

\* database.py:153: the requests lo..hi of an ordered bulk write, applied in
\* order. The range is halved, and the left half is evaluated (its domain is
\* that of st, a replacement adds no key) before the right half is applied to
\* it, which keeps the evaluation shallow.
RECURSIVE ApplyRange(_, _, _, _)
ApplyRange(st, group, lo, hi) ==
    IF lo > hi THEN st
    ELSE IF lo = hi THEN ReplaceOne(st, Document(group[lo]))
    ELSE LET mid == (lo + hi) \div 2
             left == ApplyRange(st, group, lo, mid)
         IN  IF DOMAIN left = DOMAIN st
             THEN ApplyRange(left, group, mid + 1, hi)
             ELSE left

\* database.py:145-153: the first k requests built from the group, applied.
ApplyRequests(st, group, k) == ApplyRange(st, group, 1, k)

Min(a, b) == IF a < b THEN a ELSE b

\* A slice one ID too long.
SliceOneMore(its, c) == SubSeq(its, c + 1, Min(c + BatchSize + 1, Len(its)))

\* database.py:165: items[counter:counter + 200]
Slice(its, c) == SubSeq(its, c + 1, Min(c + BatchSize, Len(its)))

\* Where an ordered bulk write of n requests may stop: before the first
\* request, halfway or before the last one.
StopPoints(n) == {0, n \div 2, n - 1} \cap 0..(n - 1)

InitCache ==
    /\ RebuildIdle
    /\ LookupIdle
    /\ CommerceIdle
    /\ CoinsIdle
    /\ \E n \in IndexLengths : remoteIndex = [i \in 1..n |-> i]
    /\ allAtOnce \in BOOLEAN
    /\ \E stale \in SUBSET {0, 1} :
          store = [i \in StoreIds |->
                      IF i \in stale THEN <<[_id |-> i, data |-> "stale"]>>
                      ELSE <<>>]
    /\ cePc = "idle"
    /\ ceItems = <<>>
    /\ counter = 0
    /\ total = 0
    /\ itemgroup = <<>>
    /\ fetched = <<>>
    /\ written = 0
    /\ bweAt = {}
    /\ ceExc = "none"
    /\ ncalls = 0
    /\ cleanStore = <<>>

\* An exception leaves cache_endpoint.
CeRaise(what) ==
    /\ cePc' = "raised"
    /\ ceExc' = what
    /\ UNCHANGED <<remoteIndex, allAtOnce, ceItems, itemgroup, fetched, bweAt,
                   ncalls, cleanStore>>
    /\ UNCHANGED outsideCache

\* cache_endpoint returns; the first invocation to return with every write
\* applied is remembered.
CeReturn ==
    /\ cePc' = "returned"
    /\ cleanStore' = IF cleanStore = <<>> /\ bweAt' = {} THEN store' ELSE cleanStore

\* database.py:162-170: the head of the while loop with counter = c: the
\* percentage, the slice, and either the break or the next batch request.
LoopHead(c) ==
    /\ counter' = c
    /\ IF total' = 0
       THEN /\ cePc' = "raised"
            /\ ceExc' = "ZeroDivisionError"
            /\ UNCHANGED <<fetched, cleanStore>>
       ELSE IF Slice(ceItems', c) = <<>>
       THEN /\ CeReturn
            /\ UNCHANGED <<fetched, ceExc>>
       ELSE /\ cePc' = "fetch"
            /\ fetched' = Append(fetched, Slice(ceItems', c))
            /\ UNCHANGED <<ceExc, cleanStore>>

\* database.py:143, 158: cache_endpoint is called and awaits the ID index.
CallCacheEndpoint ==
    /\ cePc \in {"idle", "returned", "raised"}
    /\ ncalls < MaxCalls
    /\ ncalls' = ncalls + 1
    /\ cePc' = "index"
    /\ ceItems' = <<>>
    /\ counter' = 0
    /\ total' = 0
    /\ itemgroup' = <<>>
    /\ fetched' = <<>>
    /\ written' = 0
    /\ bweAt' = {}
    /\ ceExc' = "none"
    /\ UNCHANGED <<remoteIndex, allAtOnce, store, cleanStore>>
    /\ UNCHANGED outsideCache

\* database.py:158-170, 174: the ID index arrived.
IndexFetched ==
    /\ cePc = "index"
    /\ UNCHANGED <<remoteIndex, allAtOnce, store, itemgroup, written, bweAt, ncalls>>
    /\ ceItems' = remoteIndex
    /\ IF allAtOnce
       THEN /\ cePc' = "fetch_all"
            /\ UNCHANGED <<counter, total, fetched, ceExc, cleanStore>>
       ELSE /\ total' = Len(remoteIndex)
            /\ LoopHead(0)
    /\ UNCHANGED outsideCache

\* database.py:158: call_api(endpoint) raised.
IndexFetchFails ==
    /\ cePc = "index"
    /\ CeRaise("APIError")
    /\ UNCHANGED <<store, counter, total, written>>

\* database.py:169-171: the batch arrived, bulk_write awaits the store.
BatchFetched ==
    /\ cePc = "fetch"
    /\ itemgroup' = [j \in 1..Len(fetched[Len(fetched)]) |->
                        RemoteRecord(fetched[Len(fetched)][j])]
    /\ cePc' = "write"
    /\ UNCHANGED <<remoteIndex, allAtOnce, store, ceItems, counter, total, fetched,
                   written, bweAt, ceExc, ncalls, cleanStore>>
    /\ UNCHANGED outsideCache

\* database.py:169: call_api(endpoint?ids=...) raised.
BatchFetchFails ==
    /\ cePc = "fetch"
    /\ CeRaise("APIError")
    /\ UNCHANGED <<store, counter, total, written>>

\* database.py:174-175: the answer to ids=all arrived.
AllFetched ==
    /\ cePc = "fetch_all"
    /\ itemgroup' = [j \in 1..Len(remoteIndex) |-> RemoteRecord(remoteIndex[j])]
    /\ cePc' = "write"
    /\ UNCHANGED <<remoteIndex, allAtOnce, store, ceItems, counter, total, fetched,
                   written, bweAt, ceExc, ncalls, cleanStore>>
    /\ UNCHANGED outsideCache

\* database.py:174: call_api(endpoint?ids=all) raised.
AllFetchFails ==
    /\ cePc = "fetch_all"
    /\ CeRaise("APIError")
    /\ UNCHANGED <<store, counter, total, written>>

\* database.py:171-172, 175: what follows a bulk_write that returned.
AfterBulkWrite ==
    IF allAtOnce
    THEN /\ CeReturn
         /\ UNCHANGED <<counter, fetched, ceExc>>
    ELSE LoopHead(counter + BatchSize)

\* A handler that lets BulkWriteError through.
BulkWriteErrorRaised ==
    /\ cePc = "write"
    /\ itemgroup # <<>>
    /\ \E k \in StopPoints(Len(itemgroup)) :
          store' = ApplyRequests(store, itemgroup, k)
    /\ written' = written + 1
    /\ CeRaise("BulkWriteError")
    /\ UNCHANGED <<counter, total>>

\* database.py:152-153: the store applied every request.
BulkWriteDone ==
    /\ cePc = "write"
    /\ itemgroup # <<>>
    /\ store' = ApplyRequests(store, itemgroup, Len(itemgroup))
    /\ written' = written + 1
    /\ bweAt' = bweAt
    /\ UNCHANGED <<remoteIndex, allAtOnce, ceItems, total, itemgroup, ncalls>>
    /\ AfterBulkWrite
    /\ UNCHANGED outsideCache

\* database.py:153-156: the store raised BulkWriteError after applying the
\* requests before the failing one; the error is logged and bulk_write returns.
BulkWriteErrorLogged ==
    /\ cePc = "write"
    /\ itemgroup # <<>>
    /\ \E k \in StopPoints(Len(itemgroup)) :
          store' = ApplyRequests(store, itemgroup, k)
    /\ written' = written + 1
    /\ bweAt' = bweAt \cup {written + 1}
    /\ UNCHANGED <<remoteIndex, allAtOnce, ceItems, total, itemgroup, ncalls>>
    /\ AfterBulkWrite
    /\ UNCHANGED outsideCache

\* database.py:153: the store raised another exception than BulkWriteError
\* (the connection failed): nothing catches it.
BulkWriteRaises ==
    /\ cePc = "write"
    /\ itemgroup # <<>>
    /\ \E k \in StopPoints(Len(itemgroup)) :
          store' = ApplyRequests(store, itemgroup, k)
    /\ written' = written + 1
    /\ CeRaise("PyMongoError")
    /\ UNCHANGED <<counter, total>>

\* database.py:153: a bulk write of no request raises InvalidOperation.
BulkWriteNothing ==
    /\ cePc = "write"
    /\ itemgroup = <<>>
    /\ written' = written + 1
    /\ CeRaise("InvalidOperation")
    /\ UNCHANGED <<store, counter, total>>

NextCache ==
    \/ CallCacheEndpoint
    \/ IndexFetched
    \/ IndexFetchFails
    \/ BatchFetched
    \/ BatchFetchFails
    \/ AllFetched
    \/ AllFetchFails
    \/ BulkWriteDone
    \/ BulkWriteErrorLogged
    \/ BulkWriteRaises
    \/ BulkWriteNothing

SpecCache == InitCache /\ [][NextCache]_vars

(***************************************************************************)
(* itemname_to_id and selection_menu: the collection and the queries       *)
(***************************************************************************)

\* Names, queries and message contents are sequences of characters.
\* str.lower, re.IGNORECASE
Lower(c) == CASE c = "A" -> "a" [] c = "B" -> "b" [] c = "Y" -> "y" [] OTHER -> c

\* ord, by which str compares
Code(c) ==
    CASE c = "A" -> 65 [] c = "B" -> 66 [] c = "Y" -> 89
      [] c = "a" -> 97 [] c = "b" -> 98 [] c = "y" -> 121 [] OTHER -> 0

\* str < str
StrLess(a, b) ==
    \/ \E k \in 1..Min(Len(a), Len(b)) :
          /\ \A j \in 1..(k - 1) : a[j] = b[j]
          /\ Code(a[k]) < Code(b[k])
    \/ /\ Len(a) < Len(b)
       /\ \A j \in 1..Len(a) : a[j] = b[j]

\* The literal text of item matches name from position start on, whatever the
\* case (database.py:241-242: re.escape makes every character literal).
MatchAt(name, item, start) ==
    /\ start + Len(item) - 1 <= Len(name)
    /\ \A k \in 1..Len(item) : Lower(name[start + k - 1]) = Lower(item[k])

\* database.py:242: re.compile(item_sanitized + ".*", re.IGNORECASE) as a
\* query value: the store searches the name for the pattern, which has no
\* anchor.
SearchMatches(name, item) == \E start \in 1..(Len(name) + 1) : MatchAt(name, item, start)

\* database.py:262-263: "^" + item_sanitized + "$"
ExactMatches(name, item) == Len(name) = Len(item) /\ MatchAt(name, item, 1)

\* commerce.py:105: the flags tp_price excludes.
ExcludedFlags == {"AccountBound", "SoulbindOnAcquire"}

\* database.py:243, 264: the query {"name": search, "flags": {"$nin": flags}}
QueryMatches(rec, item, exact) ==
    /\ IF exact THEN ExactMatches(rec.name, item) ELSE SearchMatches(rec.name, item)
    /\ rec.flags \cap ExcludedFlags = {}

\* The records of a sequence that match, in the sequence's order.
RECURSIVE Matching(_, _, _)
Matching(recs, item, exact) ==
    IF recs = <<>> THEN <<>>
    ELSE LET rest == Matching(Tail(recs), item, exact)
         IN  IF QueryMatches(Head(recs), item, exact)
             THEN <<Head(recs)>> \o rest
             ELSE rest

\* database.py:244, 265: count_documents(query)
CountDocuments(coll, item, exact) == Len(Matching(coll, item, exact))

\* database.py:250: find(query)
Find(coll, item) == Matching(coll, item, FALSE)

\* database.py:266: find(), with no query: every document of the collection
FindAll(coll) == coll

\* list.sort(key=name) is stable: rec goes behind every record whose name is
\* not greater.
InsertSorted(sorted, rec) ==
    LET before == {k \in 1..Len(sorted) : ~StrLess(rec.name, sorted[k].name)}
        n == IF before = {} THEN 0
             ELSE CHOOSE k \in before : \A j \in before : j <= k
    IN  SubSeq(sorted, 1, n) \o <<rec>> \o SubSeq(sorted, n + 1, Len(sorted))

\* database.py:281, 357: items.sort(key=lambda i: i["name"])
RECURSIVE SortByName(_)
SortByName(recs) ==
    IF recs = <<>> THEN <<>>
    ELSE InsertSorted(SortByName(SubSeq(recs, 1, Len(recs) - 1)), recs[Len(recs)])

(***************************************************************************)
(* itemname_to_id and selection_menu: the lookups                          *)
(***************************************************************************)

\* The text the requester searches for.
Item == <<"a", "b">>

\* The names of the collection: the item in another case, a name that starts
\* with it, one that holds it further in, and one that does not hold it.
NameExact == <<"A", "b">>
NameLonger == <<"a", "b", "a">>
NameInfix == <<"b", "a", "b">>
NameOther == <<"A", "a">>

\* The collections: how many documents of each name they hold (bound: named
\* like the item but flagged AccountBound), and whether all share one rarity.
Shape(exact, longer, infix, other, bound, uniform) ==
    [exact |-> exact, longer |-> longer, infix |-> infix, other |-> other,
     bound |-> bound, uniform |-> uniform]

Shapes ==
    { Shape(0, 0, 0, 0, 0, TRUE),
      Shape(0, 0, 0, 2, 1, TRUE),
      Shape(1, 0, 0, 1, 0, TRUE),
      Shape(2, 0, 0, 1, 0, TRUE),
      Shape(2, 1, 0, 0, 0, FALSE),
      Shape(1, 1, 1, 0, 1, FALSE),
      Shape(0, MaxListed, 0, 0, 0, FALSE),
      Shape(0, MaxListed + 1, 0, 0, 0, FALSE),
      Shape(1, MaxListed, 0, 1, 0, FALSE),
      Shape(2, MaxListed - 1, 1, 0, 1, TRUE),
      Shape(MaxListed + 1, 0, 0, 0, 0, FALSE) }

\* The documents of a collection of that shape, in the store's order.
Documents(sh) ==
    LET n == sh.longer + sh.infix + sh.other + sh.bound + sh.exact
    IN  [i \in 1..n |->
            [_id |-> i,
             name |-> IF i <= sh.longer THEN NameLonger
                      ELSE IF i <= sh.longer + sh.infix THEN NameInfix
                      ELSE IF i <= sh.longer + sh.infix + sh.other THEN NameOther
                      ELSE IF i <= sh.longer + sh.infix + sh.other + sh.bound
                           THEN Item
                      ELSE NameExact,
             rarity |-> IF sh.uniform \/ i % 2 = 1 THEN "Fine" ELSE "Rare",
             type |-> IF i % 3 = 0 THEN "UpgradeComponent" ELSE "Weapon",
             flags |-> IF /\ i > sh.longer + sh.infix + sh.other
                          /\ i <= sh.longer + sh.infix + sh.other + sh.bound
                       THEN {"AccountBound"} ELSE {}]]

\* The messages the requester and a bystander may write, in the channel of the
\* request, in a private channel and in another channel.
Contents ==
    { <<"y">>, <<"Y">>, <<"n">>, <<"1">>, <<"2">>, <<"0">>, <<"-", "1">>,
      <<"2", "7">>, <<"x">> }

Messages ==
    [author : {"requester", "bystander"}, channel : {"chan", "dm", "other"},
     content : Contents]

\* isinstance(m.channel, discord.abc.PrivateChannel)
IsPrivate(channel) == channel = "dm"

\* str.lower
LowerStr(str) == [k \in 1..Len(str) |-> Lower(str[k])]

DigitValue(c) ==
    CASE c = "0" -> 0 [] c = "1" -> 1 [] c = "2" -> 2 [] c = "3" -> 3
      [] c = "4" -> 4 [] c = "5" -> 5 [] c = "6" -> 6 [] c = "7" -> 7
      [] c = "8" -> 8 [] c = "9" -> 9 [] OTHER -> -1

\* The digits of an integer literal: the text after an optional sign.
Digits(str) ==
    IF str # <<>> /\ str[1] \in {"-", "+"} THEN Tail(str) ELSE str

\* int(str) does not raise ValueError
IsInt(str) ==
    /\ Digits(str) # <<>>
    /\ \A k \in 1..Len(Digits(str)) : DigitValue(Digits(str)[k]) >= 0

RECURSIVE DigitsValue(_)
DigitsValue(ds) ==
    IF ds = <<>> THEN 0
    ELSE 10 * DigitsValue(SubSeq(ds, 1, Len(ds) - 1)) + DigitValue(ds[Len(ds)])

\* int(str)
IntOf(str) ==
    IF str[1] = "-" THEN 0 - DigitsValue(Digits(str)) ELSE DigitsValue(Digits(str))

\* seq[num] does not raise IndexError
InRange(seq, num) == 0 - Len(seq) <= num /\ num < Len(seq)

\* seq[num]: a negative index counts from the end
PyIndex(seq, num) == IF num >= 0 THEN seq[num + 1] ELSE seq[Len(seq) + num + 1]

\* What a lookup returns: None, a choice, or the exception that left it.
NoChoice == [name |-> <<>>, rarity |-> "", ids |-> <<>>, is_upgrade |-> FALSE]
Pending == [ret |-> "pending", choice |-> NoChoice, exc |-> ""]
ReturnsNone == [ret |-> "None", choice |-> NoChoice, exc |-> ""]
Returns(choice) == [ret |-> "choice", choice |-> choice, exc |-> ""]
Raises(exc) == [ret |-> "raised", choice |-> NoChoice, exc |-> exc]

NewSession ==
    [pc |-> "idle", kind |-> "", number |-> 0, items |-> <<>>,
     distinct_items |-> <<>>, out |-> <<>>, waits |-> 0, result |-> Pending]

\* The lookup ends: its locals are gone.
Ends(sess, result) ==
    [sess EXCEPT !.pc = "done", !.result = result, !.number = 0, !.items = <<>>,
                 !.distinct_items = <<>>]

\* destination.send / ctx.send
Send(sess, text, n) ==
    [sess EXCEPT !.out = Append(@, [op |-> "send", text |-> text, n |-> n])]

\* message.edit(content=...)
Edit(sess, text) ==
    [sess EXCEPT !.out = Append(@, [op |-> "edit", text |-> text, n |-> 0])]

\* database.py:315-319, 386-390: message.delete() and answer.delete(), whose
\* failure is passed over
Delete(sess) ==
    [sess EXCEPT !.out = Append(@, [op |-> "delete", text |-> "", n |-> 0])]

\* bot.wait_for("message", timeout=120, check=check) is awaited
Awaits(sess, pc) == [sess EXCEPT !.pc = pc, !.waits = @ + 1]

\* database.py:293-295: every record is a candidate of its own
WithIds(items) ==
    [k \in 1..Len(items) |->
        [name |-> items[k].name, rarity |-> items[k].rarity,
         ids |-> <<items[k]._id>>, is_upgrade |-> FALSE]]

\* A grouping that keys the records by their name alone.
RECURSIVE consolidate_by_name(_)
consolidate_by_name(items) ==
    IF items = <<>> THEN <<>>
    ELSE LET unique == consolidate_by_name(SubSeq(items, 1, Len(items) - 1))
             item == items[Len(items)]
             at == {k \in 1..Len(unique) : unique[k].name = item.name}
         IN  IF at = {}
             THEN Append(unique, [name |-> item.name, rarity |-> item.rarity,
                                  ids |-> <<item._id>>, is_upgrade |-> FALSE])
             ELSE [unique EXCEPT ![CHOOSE k \in at : TRUE].ids = Append(@, item._id)]

\* database.py:221-231
RECURSIVE consolidate_duplicates(_)
consolidate_duplicates(items) ==
    IF items = <<>> THEN <<>>
    ELSE LET unique == consolidate_duplicates(SubSeq(items, 1, Len(items) - 1))
             item == items[Len(items)]
             at == {k \in 1..Len(unique) :
                       unique[k].name = item.name /\ unique[k].rarity = item.rarity}
         IN  IF at = {}
             THEN Append(unique, [name |-> item.name, rarity |-> item.rarity,
                                  ids |-> <<item._id>>, is_upgrade |-> FALSE])
             ELSE [unique EXCEPT ![CHOOSE k \in at : TRUE].ids = Append(@, item._id)]

\* database.py:323-326
Enriched(choice, items) ==
    [choice EXCEPT !.is_upgrade =
        \E k \in 1..Len(items) :
            /\ \E n \in 1..Len(choice.ids) : choice.ids[n] = items[k]._id
            /\ items[k].type = "UpgradeComponent"]

\* A test that lets a count of 0 through.
IsNegative(number) == number < 0

\* database.py:245, 267, 341: if not number
NoResults(number) == number = 0

\* database.py:278-321: the records of the cursor are sorted and grouped; they
\* are listed and an index is awaited, unless number is 1.
ListOrChoose(sess, number, cursor) ==
    LET items == SortByName(cursor)
        distinct_items == IF group_duplicates THEN consolidate_duplicates(items)
                          ELSE WithIds(items)
    IN  IF items = <<>> THEN Ends(sess, Raises("ValueError"))
        ELSE IF number # 1
        THEN [Awaits(Send(sess, "listing", Len(distinct_items)), "wait_index")
                 EXCEPT !.number = number, !.items = items,
                        !.distinct_items = distinct_items]
        ELSE Ends(sess, Returns(Enriched(distinct_items[1], items)))

\* A lookup that lists whatever the count is.
ItemnameToIdListsAll(sess) ==
    LET number == CountDocuments(catalog, Item, FALSE)
    IN  IF NoResults(number) THEN Ends(Send(sess, "no_results", 0), ReturnsNone)
        ELSE ListOrChoose(sess, number, Find(catalog, Item))

\* database.py:241-277: itemname_to_id up to its first wait or its return.
ItemnameToId(sess) ==
    LET number == CountDocuments(catalog, Item, FALSE)
    IN  IF NoResults(number) THEN Ends(Send(sess, "no_results", 0), ReturnsNone)
        ELSE IF number > MaxListed
        THEN [Awaits(Send(sess, "exact_prompt", number), "wait_yn")
                 EXCEPT !.number = number]
        ELSE ListOrChoose(sess, number, Find(catalog, Item))

\* database.py:260-277: the answer to the exact-match prompt.
ExactMatchAnswer(sess, content) ==
    IF LowerStr(content) # <<"y">> THEN Ends(sess, ReturnsNone)
    ELSE LET number == CountDocuments(catalog, Item, TRUE)
         IN  IF NoResults(number)
             THEN Ends(Send(sess, "no_results", 0), ReturnsNone)
             ELSE IF number > MaxListed
             THEN Ends(Send(sess, "be_specific", number), ReturnsNone)
             ELSE ListOrChoose(sess, number, FindAll(catalog))

\* database.py:355: what the caller's filter keeps
Filtered(items) ==
    IF filter_callable = "none" THEN items
    ELSE SelectSeq(items, LAMBDA i : i.rarity = "Rare")

\* database.py:341-373, 391-393: selection_menu up to its wait or its return.
\* Its callers pass the cursor of a query and the count of that query.
SelectionMenu(sess) ==
    LET number == CountDocuments(catalog, Item, FALSE)
        items == SortByName(Filtered(Find(catalog, Item)))
    IN  IF NoResults(number) THEN Ends(Send(sess, "no_results", 0), ReturnsNone)
        ELSE IF number > MaxListed
        THEN Ends(Send(sess, "be_specific", number), ReturnsNone)
        ELSE IF items = <<>> THEN Ends(sess, Raises("ValueError"))
        ELSE IF Len(items) # 1
        THEN [Awaits(Send(sess, "listing", Len(items)), "wait_index")
                 EXCEPT !.number = Len(items), !.items = items,
                        !.distinct_items = items]
        ELSE Ends(sess, Returns(items[1]))

\* database.py:309-328, 380-393: the answer to the listing. msgOk: the edit
\* or the deletion of the prompt does not raise.
IndexAnswer(sess, content, msgOk) ==
    IF IsInt(content) /\ InRange(sess.distinct_items, IntOf(content) - 1)
    THEN LET choice == PyIndex(sess.distinct_items, IntOf(content) - 1)
         IN  Ends(IF msgOk THEN Delete(sess) ELSE sess,
                  Returns(IF sess.kind = "itemname_to_id"
                          THEN Enriched(choice, sess.items) ELSE choice))
    ELSE IF msgOk THEN Ends(Edit(sess, "not_in_list"), ReturnsNone)
    ELSE Ends(sess, Raises("HTTPException"))

\* A check that accepts the messages of every author.
CheckAnyAuthor(sess, m) ==
    IF sess.kind = "itemname_to_id" /\ destination = "user"
    THEN IsPrivate(m.channel)
    ELSE m.channel = "chan"

\* database.py:233-239, 338-339: check(m)
Check(sess, m) ==
    /\ m.author = "requester"
    /\ IF sess.kind = "itemname_to_id" /\ destination = "user"
       THEN IsPrivate(m.channel)
       ELSE m.channel = "chan"

Waiting(sess) == sess.pc \in {"wait_yn", "wait_index"}

\* What the lookups are called with.
Scenarios ==
    [shape : Shapes, group_duplicates : BOOLEAN, destination : {"ctx"},
     filter_callable : {"none"}]
    \cup [shape : {Shape(2, 1, 0, 0, 0, FALSE), Shape(0, MaxListed + 1, 0, 0, 0, FALSE)},
          group_duplicates : {FALSE}, destination : {"user"},
          filter_callable : {"none"}]
    \cup [shape : {Shape(2, 0, 0, 1, 0, TRUE), Shape(2, 1, 0, 0, 0, FALSE)},
          group_duplicates : {FALSE}, destination : {"ctx"},
          filter_callable : {"rare_only"}]

InitLookup ==
    /\ RebuildIdle
    /\ CacheIdle
    /\ CommerceIdle
    /\ CoinsIdle
    /\ \E sc \in Scenarios :
          /\ catalog = Documents(sc.shape)
          /\ group_duplicates = sc.group_duplicates
          /\ destination = sc.destination
          /\ filter_callable = sc.filter_callable
    /\ sessions = [s \in Sessions |-> NewSession]

\* database.py:212-220, 330-335: a command of the requester calls
\* itemname_to_id or selection_menu, which runs to its first wait or return.
Call(s) ==
    /\ sessions[s].pc = "idle"
    /\ \E kind \in {"itemname_to_id", "selection_menu"} :
          LET sess == [sessions[s] EXCEPT !.kind = kind]
          IN  sessions' = [sessions EXCEPT ![s] =
                              IF kind = "itemname_to_id" THEN ItemnameToId(sess)
                              ELSE SelectionMenu(sess)]
    /\ UNCHANGED <<catalog, group_duplicates, destination, filter_callable>>
    /\ UNCHANGED outsideLookup

\* What a message event does to one lookup: a wait whose check accepts the
\* message returns it and the lookup goes on; any other lookup is left alone.
Received(sess, m, msgOk) ==
    IF Waiting(sess) /\ Check(sess, m)
    THEN IF sess.pc = "wait_yn" THEN ExactMatchAnswer(sess, m.content)
         ELSE IndexAnswer(sess, m.content, msgOk)
    ELSE sess

\* A message event: every wait whose check accepts the message gets it, and
\* the lookup goes on from its wait_for (database.py:256-257, 304-305,
\* 375-376). failing: the lookups whose edit or deletion of the prompt raises.
Deliver(m) ==
    /\ \E s \in Sessions : Waiting(sessions[s])
    /\ \E failing \in SUBSET {s \in Sessions : /\ sessions[s].pc = "wait_index"
                                                /\ Check(sessions[s], m)} :
          sessions' = [s \in Sessions |-> Received(sessions[s], m, s \notin failing)]
    /\ UNCHANGED <<catalog, group_duplicates, destination, filter_callable>>
    /\ UNCHANGED outsideLookup

\* database.py:258-259, 306-308, 377-379: asyncio.TimeoutError after 120
\* seconds without an accepted message.
Timeout(s) ==
    /\ Waiting(sessions[s])
    /\ \E editOk \in BOOLEAN :
          sessions' = [sessions EXCEPT ![s] =
              IF @.pc = "wait_yn" THEN Ends(@, ReturnsNone)
              ELSE IF editOk THEN Ends(Edit(@, "no_response"), ReturnsNone)
              ELSE Ends(@, Raises("HTTPException"))]
    /\ UNCHANGED <<catalog, group_duplicates, destination, filter_callable>>
    /\ UNCHANGED outsideLookup

NextLookup ==
    \/ \E s \in Sessions : Call(s)
    \/ \E m \in Messages : Deliver(m)
    \/ \E s \in Sessions : Timeout(s)

SpecLookup == InitLookup /\ [][NextLookup]_vars

(***************************************************************************)
(* tp_current: the undercut count                                          *)
(***************************************************************************)

\* The unit prices and the listing counts of the offers.
Prices == {90, 100, 110}

ListingCounts == {1, 3, 5}

Offer(unit_price, listings) == [unit_price |-> unit_price, listings |-> listings]

\* The lists of offers the listings endpoint may answer with.
OfferLists ==
    UNION {[1..n -> [unit_price : Prices, listings : ListingCounts]] : n \in 0..MaxOffers}

\* The comparators of the two sides taken for each other.
OpSwapped(st, a, b) == IF st = "buys" THEN a > b ELSE a < b

\* A comparator that also holds of equal prices.
OpOrEqual(st, a, b) == IF st = "buys" THEN a <= b ELSE a >= b

\* commerce.py:76: op = operator.lt if state == "buys" else operator.gt
Op(st, a, b) == IF st = "buys" THEN a < b ELSE a > b

\* commerce.py:26-31, 67-73: one transaction of the requester and the offers
\* of its item on the side asked for.
InitCommerce ==
    /\ RebuildIdle
    /\ CacheIdle
    /\ LookupIdle
    /\ CoinsIdle
    /\ state \in {"buys", "sells"}
    /\ price \in Prices
    /\ offers \in OfferLists
    /\ tpPc = "offers"
    /\ max_price = 0
    /\ undercuts = 0
    /\ offerAt = 0
    /\ tpExc = "none"

\* commerce.py:74-77: max_price = offers[0]["unit_price"]; undercuts = 0; the
\* loop starts.
MaxPriceRead ==
    /\ tpPc = "offers"
    /\ offers # <<>>
    /\ max_price' = offers[1].unit_price
    /\ undercuts' = 0
    /\ offerAt' = 1
    /\ tpPc' = "loop"
    /\ UNCHANGED <<state, price, offers, tpExc>>
    /\ UNCHANGED outsideCommerce

\* commerce.py:74: offers[0] of an empty list raises IndexError.
MaxPriceRaises ==
    /\ tpPc = "offers"
    /\ offers = <<>>
    /\ tpPc' = "raised"
    /\ tpExc' = "IndexError"
    /\ UNCHANGED <<state, price, offers, max_price, undercuts, offerAt>>
    /\ UNCHANGED outsideCommerce

\* commerce.py:77-80: the comparator does not hold of the offer: it is counted.
OfferCounted ==
    /\ tpPc = "loop"
    /\ offerAt <= Len(offers)
    /\ ~Op(state, offers[offerAt].unit_price, price)
    /\ undercuts' = undercuts + offers[offerAt].listings
    /\ offerAt' = offerAt + 1
    /\ UNCHANGED <<state, price, offers, tpPc, max_price, tpExc>>
    /\ UNCHANGED outsideCommerce

\* commerce.py:78-79: the comparator holds of the offer: break.
OfferBreaks ==
    /\ tpPc = "loop"
    /\ offerAt <= Len(offers)
    /\ Op(state, offers[offerAt].unit_price, price)
    /\ tpPc' = "done"
    /\ UNCHANGED <<state, price, offers, max_price, undercuts, offerAt, tpExc>>
    /\ UNCHANGED outsideCommerce

\* commerce.py:77: the offers are exhausted.
OffersExhausted ==
    /\ tpPc = "loop"
    /\ offerAt > Len(offers)
    /\ tpPc' = "done"
    /\ UNCHANGED <<state, price, offers, max_price, undercuts, offerAt, tpExc>>
    /\ UNCHANGED outsideCommerce

NextCommerce ==
    \/ MaxPriceRead
    \/ MaxPriceRaises
    \/ OfferCounted
    \/ OfferBreaks
    \/ OffersExhausted

SpecCommerce == InitCommerce /\ [][NextCommerce]_vars

(***************************************************************************)
(* gold_to_coins                                                           *)
(***************************************************************************)

\* The amounts: every one up to MaxMoney, and 12 gold 34 silver 56 copper.
Amounts == 0..MaxMoney \cup {123456}

DigitChar(d) ==
    CASE d = 0 -> "0" [] d = 1 -> "1" [] d = 2 -> "2" [] d = 3 -> "3"
      [] d = 4 -> "4" [] d = 5 -> "5" [] d = 6 -> "6" [] d = 7 -> "7"
      [] d = 8 -> "8" [] d = 9 -> "9"

\* "{}".format(n) of a natural number: its decimal digits
RECURSIVE Str(_)
Str(n) == IF n < 10 THEN <<DigitChar(n)>> ELSE Str(n \div 10) \o <<DigitChar(n % 10)>>

\* A part that is written whatever the number.
PartAlways(n, unit) == Str(n) \o <<unit>>

\* commerce.py:211-216: "{}{}".format(n, emoji) if n else "": the digits of
\* the number and the emoji of the denomination, or nothing.
Part(n, unit) == IF n # 0 THEN Str(n) \o <<unit>> ELSE <<>>

InitCoins ==
    /\ RebuildIdle
    /\ CacheIdle
    /\ LookupIdle
    /\ CommerceIdle
    /\ money \in Amounts
    /\ gold = 0
    /\ silver = 0
    /\ copper = 0
    /\ coins = <<>>
    /\ gcPc = "divmod"

\* commerce.py:208-209: gold, remainder = divmod(money, 10000);
\* silver, copper = divmod(remainder, 100)
Divmod ==
    /\ gcPc = "divmod"
    /\ LET remainder == money % 10000
       IN  /\ gold' = money \div 10000
           /\ silver' = remainder \div 100
           /\ copper' = remainder % 100
    /\ gcPc' = "format"
    /\ UNCHANGED <<money, coins>>
    /\ UNCHANGED outsideCoins

\* commerce.py:210-217: the three parts, joined without the empty ones.
Format ==
    /\ gcPc = "format"
    /\ coins' = Part(gold, "gold") \o Part(silver, "silver") \o Part(copper, "copper")
    /\ gcPc' = "done"
    /\ UNCHANGED <<money, gold, silver, copper>>
    /\ UNCHANGED outsideCoins

NextCoins ==
    \/ Divmod
    \/ Format

SpecCoins == InitCoins /\ [][NextCoins]_vars

(***************************************************************************)
(* rebuild_database: claims                                                *)
(***************************************************************************)

\* The endpoint names of the fixed list, in list order.
EndpointNames == [i \in 1..Len(endpoints) |-> endpoints[i].endpoint]

IsPrefix(s, t) == Len(s) <= Len(t) /\ s = SubSeq(t, 1, Len(s))

\* C1: the step with which an invocation of rebuild_database runs to
\* completion leaves bot.available True, whichever cache_endpoint calls raised
\* before it.
C1_AvailableOnCompletion ==
    [][\A r \in Runs :
          (runPc[r] # "done" /\ runPc'[r] = "done") => available' = TRUE]_vars

\* An invocation ran to completion although some of its targets raised.
C1_Witness ==
    \E r \in Runs : runPc[r] = "done" /\ runFailed[r] /\ available = TRUE

\* The calls the claims name as failing: the operator notification, index
\* creation and cache_raids (a failing change_presence is left aside).
NamedFailures == {"owner.send", "create_index", "cache_raids"}

\* C2: on every exit path of rebuild_database, normal or by an exception of the
\* operator notification, of index creation or of cache_raids, the step that
\* leaves it has bot.available True.
C2_AvailableOnEveryExit ==
    [][\A r \in Runs :
          (/\ runPc[r] \notin Ended
           /\ runPc'[r] \in Ended
           /\ runExc'[r] \in NamedFailures \cup {"none"}) => available' = TRUE]_vars

\* C3: no invocation of rebuild_database ends by raising to its caller the
\* exception of a notification, an index build or the secondary sync.
C3_NeverRaises ==
    \A r \in Runs : ~(runPc[r] = "raised" /\ runExc[r] \in NamedFailures)

\* C4: while at least one invocation of rebuild_database is in progress,
\* bot.available is False.
C4_UnavailableWhileRunning ==
    (\E r \in Runs : InProgress(r)) => available = FALSE

\* C5: the targets are attempted in list order, each at most once, and an
\* invocation in which a target raised has, when it ends, attempted every
\* target of the list.
C5_EveryTargetAttempted ==
    \A r \in Runs :
        /\ IsPrefix(runCalls[r], EndpointNames)
        /\ (runPc[r] \in Ended /\ runFailed[r]) => runCalls[r] = EndpointNames

\* C6: when the await of owner.send in the except clause ends, by returning or
\* by raising, the invocation goes on with the next target (with index creation
\* after the last one).
C6_NotifyFailureDiscarded ==
    [][\A r \in Runs :
          (runPc[r] = "notify" /\ runPc'[r] # "notify")
              => runPc'[r] \in {"cache", "index"}]_vars

(***************************************************************************)
(* cache_endpoint: claims                                                  *)
(***************************************************************************)

CeilDiv(n, d) == (n + d - 1) \div d

\* The ID lists of the batch requests, one after the other.
RECURSIVE Flatten(_)
Flatten(ss) ==
    IF ss = <<>> THEN <<>>
    ELSE Flatten(SubSeq(ss, 1, Len(ss) - 1)) \o ss[Len(ss)]

\* The invocation got through its loop: it returned, or it stopped at the loop
\* head of an empty index, and no remote call or store write raised.
LoopCompleted ==
    cePc = "returned" \/ (cePc = "raised" /\ ceExc = "ZeroDivisionError")

\* C7: in batched mode every batch request holds at most BatchSize IDs, the
\* requests issued so far list the IDs of the index in order without gap or
\* repetition, and an invocation that got through its loop has issued exactly
\* ceil(N / BatchSize) requests listing every ID of the index exactly once.
C7_BatchedFetches ==
    ~allAtOnce =>
        /\ \A b \in 1..Len(fetched) : Len(fetched[b]) <= BatchSize
        /\ IsPrefix(Flatten(fetched), remoteIndex)
        /\ LoopCompleted =>
              /\ Len(fetched) = CeilDiv(Len(remoteIndex), BatchSize)
              /\ Flatten(fetched) = remoteIndex

\* A batched refresh of an index that ends in a partial batch returned.
C7_Witness ==
    /\ ~allAtOnce
    /\ cePc = "returned"
    /\ Len(fetched) >= 3
    /\ Len(remoteIndex) % BatchSize # 0

\* C8: BulkWriteError never leaves cache_endpoint, and a batched invocation
\* that returned has fetched and handed to bulk_write every batch of the index,
\* also those after a batch that hit BulkWriteError, whose records are in the
\* collection unless their own write failed.
C8_BulkWriteErrorIsolated ==
    /\ ceExc # "BulkWriteError"
    /\ (cePc = "returned" /\ ~allAtOnce) =>
          \A b \in bweAt :
              /\ Len(fetched) = CeilDiv(Len(remoteIndex), BatchSize)
              /\ written = Len(fetched)
              /\ \A j \in (b + 1)..Len(fetched) :
                    j \notin bweAt =>
                        \A n \in 1..Len(fetched[j]) :
                            store[fetched[j][n]] =
                                <<Document(RemoteRecord(fetched[j][n]))>>

\* A refresh returned whose first batch hit BulkWriteError and whose later
\* batches were written.
C8_Witness ==
    /\ ~allAtOnce
    /\ cePc = "returned"
    /\ 1 \in bweAt
    /\ Len(fetched) >= 2
    /\ 2 \notin bweAt
    /\ written = Len(fetched)

\* C9: no two documents of the collection share an _id, and once an invocation
\* has returned with every write applied, the collection holds the remote
\* record of every listed ID and every later invocation against the unchanged
\* remote source leaves the collection as that invocation left it.
C9_RefreshIdempotent ==
    /\ \A i \in DOMAIN store : Len(store[i]) <= 1
    /\ cleanStore # <<>> =>
          /\ store = cleanStore
          /\ \A j \in 1..Len(remoteIndex) :
                store[remoteIndex[j]] = <<Document(RemoteRecord(remoteIndex[j]))>>

\* A second invocation, after an error-free one, has upserted a batch over
\* the documents the first one wrote, beside a document the remote source does
\* not list.
C9_Witness ==
    /\ ncalls = 2
    /\ cleanStore # <<>>
    /\ cePc = "fetch"
    /\ written >= 1
    /\ store[0] # <<>>

(***************************************************************************)
(* itemname_to_id and selection_menu: claims                               *)
(***************************************************************************)

\* The messages that ask the requester for a reply.
Prompts == {"exact_prompt", "listing"}

Prompted(sess) ==
    \E k \in 1..Len(sess.out) : sess.out[k].op = "send" /\ sess.out[k].text \in Prompts

\* C10: when the name query of the lookup matches no record, itemname_to_id
\* returns None having sent no exact-match prompt and no listing and having
\* awaited no reply; so does selection_menu called with number 0.
C10_NoMatchNoPrompt ==
    \A s \in Sessions :
        (sessions[s].pc # "idle" /\ CountDocuments(catalog, Item, FALSE) = 0)
            => /\ sessions[s].pc = "done"
               /\ sessions[s].result = ReturnsNone
               /\ ~Prompted(sessions[s])
               /\ sessions[s].waits = 0

\* Both lookups have been called on a collection that holds documents, none of
\* which the query matches.
C10_Witness ==
    /\ catalog # <<>>
    /\ CountDocuments(catalog, Item, FALSE) = 0
    /\ \E s, t \in Sessions :
          /\ sessions[s].kind = "itemname_to_id"
          /\ sessions[t].kind = "selection_menu"
          /\ sessions[s].pc = "done"
          /\ sessions[t].pc = "done"

\* The places of the messages of that text among those the lookup has sent.
SentAt(sess, text) ==
    {k \in 1..Len(sess.out) : sess.out[k].op = "send" /\ sess.out[k].text = text}

\* The lookups of itemname_to_id whose query matched more than 25 records.
OverListed(s) ==
    /\ sessions[s].kind = "itemname_to_id"
    /\ CountDocuments(catalog, Item, FALSE) > MaxListed

\* The message is an affirmative reply that the wait of the lookup accepts.
Affirms(sess, m) == Check(sess, m) /\ LowerStr(m.content) = <<"y">>

\* C11: when the name query matches more than 25 records, the first message of
\* itemname_to_id is the exact-match Y/N prompt, sent once, and its reply is
\* awaited; a listing is sent only in the step in which the wait on that
\* prompt receives an affirmative reply.
C11_PromptBeforeListing ==
    /\ [](\A s \in Sessions : OverListed(s) =>
            /\ SentAt(sessions[s], "exact_prompt") = {1}
            /\ sessions[s].waits >= 1
            /\ \A k \in SentAt(sessions[s], "listing") : k > 1)
    /\ [][\A s \in Sessions :
            (/\ SentAt(sessions[s], "listing") = {}
             /\ SentAt(sessions'[s], "listing") # {}
             /\ OverListed(s)')
                => /\ sessions[s].pc = "wait_yn"
                   /\ \E m \in Messages : Affirms(sessions[s], m) /\ Deliver(m)]_vars

\* A lookup over more than 25 matches has sent its listing after the prompt.
C11_Witness ==
    \E s \in Sessions :
        /\ OverListed(s)
        /\ SentAt(sessions[s], "exact_prompt") = {1}
        /\ SentAt(sessions[s], "listing") = {2}

\* The candidate groups of the records the name query matches.
MatchedGroups ==
    IF group_duplicates THEN consolidate_duplicates(SortByName(Find(catalog, Item)))
    ELSE WithIds(SortByName(Find(catalog, Item)))

\* C12: when the records the name query matches (25 at most) form one
\* candidate group, itemname_to_id has returned that group having sent no
\* listing and awaited no reply.
C12_SingleGroupDirect ==
    \A s \in Sessions :
        (/\ sessions[s].kind = "itemname_to_id"
         /\ CountDocuments(catalog, Item, FALSE) <= MaxListed
         /\ Len(MatchedGroups) = 1)
            => /\ sessions[s].pc = "done"
               /\ sessions[s].result.ret = "choice"
               /\ sessions[s].result.choice.ids = MatchedGroups[1].ids
               /\ ~Prompted(sessions[s])
               /\ sessions[s].waits = 0

\* The records the anchored exact-name query matches, and their ids.
ExactRecords == SortByName(Matching(catalog, Item, TRUE))

ExactIds == {ExactRecords[k]._id : k \in 1..Len(ExactRecords)}

\* The candidate groups of those records.
ExactGroups ==
    IF group_duplicates THEN consolidate_duplicates(ExactRecords)
    ELSE WithIds(ExactRecords)

\* C13: after an affirmative reply to the exact-match prompt, the candidates
\* itemname_to_id lists are the groups of the records the exact-name query
\* matches, a listing has 25 entries at most, and a resolution holds only ids
\* of records that match that query.
C13_ExactCandidates ==
    \A s \in Sessions :
        OverListed(s) =>
            /\ sessions[s].pc = "wait_index"
                  => sessions[s].distinct_items = ExactGroups
            /\ \A k \in SentAt(sessions[s], "listing") :
                  sessions[s].out[k].n <= MaxListed
            /\ sessions[s].result.ret = "choice"
                  => \A k \in 1..Len(sessions[s].result.choice.ids) :
                        sessions[s].result.choice.ids[k] \in ExactIds

\* The reply names one of the n candidates of the listing.
ValidIndex(content, n) == IsInt(content) /\ IntOf(content) \in 1..n

\* The last thing the lookup did to its messages is that edit of the prompt.
LastEdit(sess, text) ==
    /\ sess.out # <<>>
    /\ sess.out[Len(sess.out)] = [op |-> "edit", text |-> text, n |-> 0]

\* C14: a reply to the listing of n candidates that is not an integer in 1..n
\* never resolves to a candidate: unless the edit of the prompt fails, the
\* lookup edits the prompt to the not-in-the-list message and returns None.
C14_InvalidIndexRejected ==
    [][\A m \in Messages : \A s \in Sessions :
          (/\ sessions[s].pc = "wait_index"
           /\ Check(sessions[s], m)
           /\ ~ValidIndex(m.content, Len(sessions[s].distinct_items))
           /\ Deliver(m))
              => /\ sessions'[s].result.ret # "choice"
                 /\ sessions'[s].result.ret # "raised"
                       => /\ sessions'[s].result = ReturnsNone
                          /\ LastEdit(sessions'[s], "not_in_list")]_vars

\* C15: when the 120 seconds of a wait (on the exact-match prompt or on the
\* listing) pass without an accepted reply, the lookup is over, awaits nothing
\* more and has returned None.
C15_TimeoutEndsSession ==
    [][\A s \in Sessions :
          (Waiting(sessions[s]) /\ Timeout(s))
              => /\ ~Waiting(sessions'[s])
                 /\ sessions'[s].pc = "done"
                 /\ sessions'[s].result = ReturnsNone]_vars

\* The messages that explain an outcome to the requester: a new message that
\* is not a prompt, or an edit of the prompt.
Explanations(sess) ==
    {k \in 1..Len(sess.out) :
        \/ sess.out[k].op = "edit"
        \/ sess.out[k].op = "send" /\ sess.out[k].text \notin Prompts}

\* C16: a lookup of itemname_to_id that has returned None has conveyed exactly
\* one explanation to the requester, besides its prompts.
C16_OneExplanation ==
    \A s \in Sessions :
        (/\ sessions[s].kind = "itemname_to_id"
         /\ sessions[s].pc = "done"
         /\ sessions[s].result = ReturnsNone)
            => Cardinality(Explanations(sessions[s])) = 1

\* C17: no lookup of itemname_to_id or selection_menu ends in an exception:
\* what it ends with is a choice or None.
C17_NeverRaises ==
    \A s \in Sessions :
        /\ sessions[s].result.ret # "raised"
        /\ sessions[s].pc = "done" => sessions[s].result.ret \in {"choice", "None"}

\* C18: when two lookups of the requester await a reply at the same time, one
\* message event ends the wait of at most one of them.
C18_ReplyConsumedOnce ==
    [][\A s, t \in Sessions :
          (s # t /\ Waiting(sessions[s]) /\ Waiting(sessions[t]))
              => ~(sessions'[s] # sessions[s] /\ sessions'[t] # sessions[t])]_vars

\* Where the reply to the lookup is expected: the channel of the request, or
\* the private conversation with the requester.
RequestChannel(sess) ==
    IF sess.kind = "itemname_to_id" /\ destination = "user" THEN "dm" ELSE "chan"

\* C19: a message of another author, or in another channel than that of the
\* request, leaves a waiting lookup as it is: still waiting, nothing sent,
\* no result. Stated of the steps: whatever changes a waiting lookup, it is
\* not what the event of such a message does to it.
C19_ForeignMessageIgnored ==
    [][\A s \in Sessions :
          (Waiting(sessions[s]) /\ sessions'[s] # sessions[s])
              => \A m \in Messages :
                    (m.author # "requester" \/ m.channel # RequestChannel(sessions[s]))
                        => \A msgOk \in BOOLEAN :
                              sessions'[s] # Received(sessions[s], m, msgOk)]_vars

\* A lookup answered in private still waits after a reply of the requester in
\* the channel has ended a wait of selection_menu there.
C19_Witness ==
    /\ destination = "user"
    /\ \E s, t \in Sessions :
          /\ sessions[s].kind = "itemname_to_id"
          /\ Waiting(sessions[s])
          /\ sessions[t].kind = "selection_menu"
          /\ sessions[t].pc = "done"
          /\ sessions[t].waits = 1
          /\ sessions[t].result.ret = "choice"

(***************************************************************************)
(* tp_current: claims                                                      *)
(***************************************************************************)

\* The first offer of which the comparator of the side holds; past the end
\* when it holds of none.
FirstStop ==
    LET stops == {k \in 1..Len(offers) : Op(state, offers[k].unit_price, price)}
    IN  IF stops = {} THEN Len(offers) + 1
        ELSE CHOOSE k \in stops : \A j \in stops : k <= j

\* The listing counts of the first n offers, summed.
RECURSIVE ListingsBefore(_)
ListingsBefore(n) == IF n = 0 THEN 0 ELSE ListingsBefore(n - 1) + offers[n].listings

\* The offers of the example: 5 at 110, 3 at 100, 1 at 90.
ExampleOffers == <<Offer(110, 5), Offer(100, 3), Offer(90, 1)>>

\* C20: the undercut count tp_current ends with is the sum of the listing
\* counts of the offers before the first one whose price is below the own
\* price (buys) or above it (sells), 0 when that is the first offer; for buys
\* at own price 100 over offers (110,5), (100,3), (90,1) it is 8.
C20_UndercutCount ==
    tpPc = "done" =>
        /\ undercuts = ListingsBefore(FirstStop - 1)
        /\ Op(state, offers[1].unit_price, price) => undercuts = 0
        /\ (state = "buys" /\ price = 100 /\ offers = ExampleOffers) => undercuts = 8

\* The loop has ended on the example.
C20_Witness ==
    /\ tpPc = "done"
    /\ state = "buys"
    /\ price = 100
    /\ offers = ExampleOffers
    /\ undercuts = 8

\* The loop has ended on the example taken on the sells side.
SellsExampleDone ==
    /\ tpPc = "done"
    /\ state = "sells"
    /\ price = 100
    /\ offers = ExampleOffers

\* C21, as stated: for sells at own price 100 over offers (110,5), (100,3),
\* (90,1) in that order the undercut count is 5.
C21_SellsExampleFive == SellsExampleDone => undercuts = 5

\* C21, amended: for sells at own price 100 over offers (110,5), (100,3),
\* (90,1) in that order the undercut count is 0: the comparator already holds
\* of the first offer (110 > 100), so no offer is counted.
C21_SellsExampleZero == SellsExampleDone => undercuts = 0 /\ offerAt = 1

C21_Witness == SellsExampleDone /\ undercuts = 0

(***************************************************************************)
(* gold_to_coins: claims                                                   *)
(***************************************************************************)

Units == {"gold", "silver", "copper"}

Worth(unit) == CASE unit = "gold" -> 10000 [] unit = "silver" -> 100 [] unit = "copper" -> 1

\* The amount a text reads as: each number times the worth of the
\* denomination that follows it. acc: the digits read since the last one.
RECURSIVE Reads(_, _)
Reads(text, acc) ==
    IF text = <<>> THEN 0
    ELSE IF Head(text) \in Units
    THEN DigitsValue(acc) * Worth(Head(text)) + Reads(Tail(text), <<>>)
    ELSE Reads(Tail(text), Append(acc, Head(text)))

\* The denominations a text names, and those it names with the number 0.
Named(text) == {text[k] : k \in 1..Len(text)} \cap Units

NamedZero(text) ==
    {text[k] : k \in {j \in 2..Len(text) :
                        /\ text[j] \in Units
                        /\ text[j - 1] = "0"
                        /\ j = 2 \/ text[j - 2] \in Units}}

\* C22: gold_to_coins splits a non-negative amount into gold = amount div
\* 10000, silver = (amount mod 10000) div 100 and copper = amount mod 100,
\* which add up to the amount with silver and copper below 100 (123456 gives
\* 12, 34, 56); its text names exactly the denominations that are not zero,
\* reads as the amount, and is empty for the amount 0.
C22_GoldToCoins ==
    gcPc = "done" =>
        /\ gold = money \div 10000
        /\ silver = (money % 10000) \div 100
        /\ copper = money % 100
        /\ gold * 10000 + silver * 100 + copper = money
        /\ silver \in 0..99 /\ copper \in 0..99 /\ gold >= 0
        /\ money = 123456 => gold = 12 /\ silver = 34 /\ copper = 56
        /\ Named(coins) = {u \in Units :
                              \/ u = "gold" /\ gold # 0
                              \/ u = "silver" /\ silver # 0
                              \/ u = "copper" /\ copper # 0}
        /\ NamedZero(coins) = {}
        /\ Reads(coins, <<>>) = money
        /\ money = 0 => coins = <<>>

\* The text of an amount with a denomination that is zero between two that are
\* not has been written.
C22_Witness ==
    /\ gcPc = "done"
    /\ money = 10056
    /\ coins = <<"1", "gold", "5", "6", "copper">>

(***************************************************************************)
(* consolidate_duplicates: claims                                          *)
(***************************************************************************)

\* The places of the records of that name and rarity among the records.
PlacesOf(its, name, rarity) ==
    {k \in 1..Len(its) : its[k].name = name /\ its[k].rarity = rarity}

\* The place of the record of that id among the records.
PlaceOfId(its, id) == CHOOSE k \in 1..Len(its) : its[k]._id = id

\* The (group, member) places at which the groups hold that id.
HeldAt(groups, id) ==
    UNION {{<<j, n>> : n \in {n \in 1..Len(groups[j].ids) : groups[j].ids[n] = id}} :
              j \in 1..Len(groups)}

\* The records are in ascending order of name.
NameSorted(its) ==
    \A k \in 1..Len(its) - 1 : ~StrLess(its[k + 1].name, its[k].name)

\* The groups partition the records by (name, rarity), in first-seen order.
Partitions(groups, its) ==
    /\ \A k \in 1..Len(its) : Cardinality(HeldAt(groups, its[k]._id)) = 1
    /\ \A j \in 1..Len(groups) :
          /\ Len(groups[j].ids) >= 1
          /\ \A n \in 1..Len(groups[j].ids) :
                /\ \E k \in PlacesOf(its, groups[j].name, groups[j].rarity) :
                      its[k]._id = groups[j].ids[n]
                /\ \A n2 \in 1..Len(groups[j].ids) :
                      n < n2 => PlaceOfId(its, groups[j].ids[n])
                                    < PlaceOfId(its, groups[j].ids[n2])
    /\ \A j, j2 \in 1..Len(groups) :
          j < j2 =>
              /\ <<groups[j].name, groups[j].rarity>>
                    # <<groups[j2].name, groups[j2].rarity>>
              /\ PlaceOfId(its, groups[j].ids[1]) < PlaceOfId(its, groups[j2].ids[1])

\* Every record is a group of its own, holding its id alone.
Singletons(groups, its) ==
    /\ Len(groups) = Len(its)
    /\ \A k \in 1..Len(its) :
          /\ groups[k].ids = <<its[k]._id>>
          /\ groups[k].name = its[k].name
          /\ groups[k].rarity = its[k].rarity

\* C23: the candidates itemname_to_id lists are, with group_duplicates, the
\* partition of the name-sorted records by (name, rarity): every id in exactly
\* one group, no two groups of one (name, rarity), no empty group, groups and
\* member ids in first-seen order; without it, one group per record, holding
\* its id alone.
C23_GroupsPartition ==
    \A s \in Sessions :
        (sessions[s].kind = "itemname_to_id" /\ sessions[s].pc = "wait_index")
            => /\ NameSorted(sessions[s].items)
               /\ IF group_duplicates
                  THEN Partitions(sessions[s].distinct_items, sessions[s].items)
                  ELSE Singletons(sessions[s].distinct_items, sessions[s].items)

\* A listing of several groups, one of them of records of one name and rarity
\* that other records stand between.
C23_Witness ==
    /\ group_duplicates
    /\ \E s \in Sessions :
          /\ sessions[s].kind = "itemname_to_id"
          /\ sessions[s].pc = "wait_index"
          /\ Len(sessions[s].distinct_items) >= 2
          /\ \E j \in 1..Len(sessions[s].distinct_items) :
                LET ids == sessions[s].distinct_items[j].ids
                IN  /\ Len(ids) >= 2
                    /\ PlaceOfId(sessions[s].items, ids[2])
                          > PlaceOfId(sessions[s].items, ids[1]) + 1

(***************************************************************************)
(* rebuild_database: the order of its phases                               *)
(***************************************************************************)

\* The secondary syncs of a rebuild.
SecondarySyncs == {"cache_dailies", "cache_raids"}

\* C24: rebuild_database starts on the indexes only when every target has
\* been attempted, starts the secondary sync only when the last index is
\* built, and an invocation that completes has performed both cache_dailies
\* and cache_raids.
C24_PhasesInOrder ==
    /\ [][\A r \in Runs :
            /\ (runPc[r] # "index" /\ runPc'[r] = "index")
                  => runCalls'[r] = EndpointNames
            /\ (runPc[r] # "raids" /\ runPc'[r] = "raids")
                  => runPc[r] = "index" /\ runIx[r] = Len(indexes)
            /\ runSynced'[r] # runSynced[r] /\ runSynced'[r] # {}
                  => runPc[r] = "raids"]_vars
    /\ [](\A r \in Runs : runPc[r] = "done" => SecondarySyncs \subseteq runSynced[r])

(***************************************************************************)
(* cache_endpoint: the end of the batched loop                             *)
(***************************************************************************)

\* C25: in batched mode cache_endpoint issues no more batch fetches than the
\* ID index has batches, and once the call for an empty index has answered
\* it has returned, without an exception and without any batch fetch.
C25_BatchedLoopEnds ==
    ~allAtOnce =>
        /\ Len(fetched) <= CeilDiv(Len(remoteIndex), BatchSize)
        /\ (remoteIndex = <<>> /\ cePc \notin {"idle", "index"} /\ ceExc # "APIError")
              => /\ cePc = "returned"
                 /\ ceExc = "none"
                 /\ fetched = <<>>

====
